---- MODULE Spec2Model ----
(***************************************************************************)
(* convert: conversion of units (F. Gygi).  Units are nodes of a graph     *)
(* kept in a linked list; relations are edges kept in per-node adjacency   *)
(* lists; a conversion is a depth first search (connect) from the source   *)
(* unit that accumulates the converted value along the edges it follows.   *)
(*                                                                         *)
(* Doubles are modelled as exact rationals <<numerator, denominator>> in   *)
(* lowest terms with a positive denominator.                               *)
(***************************************************************************)
EXTENDS Integers, Sequences, FiniteSets, TLC

\* ------------------------------------------------------------------ bounds
\* the most edge records that the definition file of a run holds
MaxEdges == 2
\* the same, for a run that lists the units and for convert called repeatedly
MaxEdgesSmall == 1

\* the unit names, long names, factors and values of the records and requests
Names == {"A", "B", "C"}
LongNames == {"x", "y"}
OneLongName == {"x"}
Factors == {0, 2, 3}
Values == {0, 3}

NoName == "-"

\* ------------------------------------------------------------- rationals
RECURSIVE Gcd(_, _)
Gcd(a, b) == IF b = 0 THEN a ELSE Gcd(b, a % b)

Abs(a) == IF a < 0 THEN -a ELSE a

\* the rational n/d (d # 0) in lowest terms with a positive denominator
Rat(n, d) ==
  LET g == Gcd(Abs(n), Abs(d))
      s == IF d < 0 THEN -1 ELSE 1
  IN  <<(s * n) \div g, (s * d) \div g>>

Num(q) == q[1]
Den(q) == q[2]
RInt(n) == <<n, 1>>
RZero == RInt(0)
RIsZero(q) == Num(q) = 0
RMul(p, q) == Rat(Num(p) * Num(q), Den(p) * Den(q))
\* p / q for q # 0
RDiv(p, q) == Rat(Num(p) * Den(q), Den(p) * Num(q))

\* ------------------------------------------------------------------ state
VARIABLES
  unit_list,   \* the list of nodes, head first: <<[name, long_name], ...>>
  adj_list,    \* per unit name, the node's adjacency list, head first
  visited,     \* per unit name, the node's visited flag
  value,       \* main: the value of the conversion request
  from_unit,   \* main: the source unit of the conversion request
  to_unit,     \* main: the target unit of the conversion request
  result,      \* global: the result of the conversion
  found,       \* global: set when the destination is reached
  stack,       \* the active calls of connect, innermost last
  pc,          \* where the program is
  err,         \* why the program exited, "none" while it has not failed
  listing,     \* the lines of the unit listing written by main
  warned,      \* the unit named by the warning of the record just read
  nodes_read,  \* the node records read and accepted so far, in file order
  edges_read   \* the edge records read and accepted so far, in file order

vars == <<unit_list, adj_list, visited, value, from_unit, to_unit, result,
          found, stack, pc, err, listing, warned, nodes_read, edges_read>>

graph == <<unit_list, adj_list, visited>>
request == <<value, from_unit, to_unit>>
search == <<result, found, stack>>
records == <<nodes_read, edges_read>>

\* --------------------------------------------------------------- helpers
\* find_node: whether a node named name is in the unit list
Defined(name) == \E i \in 1..Len(unit_list) : unit_list[i].name = name

\* the definition file is being read
Loading == pc = "load"

Init ==
  /\ unit_list = <<>>
  /\ adj_list = [n \in Names |-> <<>>]
  /\ visited = [n \in Names |-> FALSE]
  /\ value = RZero
  /\ from_unit = NoName
  /\ to_unit = NoName
  /\ result = RZero
  /\ found = FALSE
  /\ stack = <<>>
  /\ pc = "load"
  /\ err = "none"
  /\ listing = <<>>
  /\ warned = NoName
  /\ nodes_read = <<>>
  /\ edges_read = <<>>

\* ------------------------------------------------------------- add_node
NodeRecord(new_name, new_long_name) ==
  [name |-> new_name, long_name |-> new_long_name]

\* a slip: the new node is linked in at the tail of the unit list
AddNodeNewAtTail(new_name, new_long_name) ==
  /\ Loading
  /\ ~Defined(new_name)
  /\ unit_list' = Append(unit_list, NodeRecord(new_name, new_long_name))
  /\ adj_list' = [adj_list EXCEPT ![new_name] = <<>>]
  /\ visited' = [visited EXCEPT ![new_name] = FALSE]
  /\ nodes_read' = Append(nodes_read, NodeRecord(new_name, new_long_name))
  /\ warned' = NoName
  /\ UNCHANGED <<request, search, pc, err, listing, edges_read>>

\* a slip: the name is not looked up before the node is linked in
AddNodeNewAlways(new_name, new_long_name) ==
  /\ Loading
  /\ unit_list' = <<NodeRecord(new_name, new_long_name)>> \o unit_list
  /\ adj_list' = [adj_list EXCEPT ![new_name] = <<>>]
  /\ visited' = [visited EXCEPT ![new_name] = FALSE]
  /\ nodes_read' = Append(nodes_read, NodeRecord(new_name, new_long_name))
  /\ warned' = NoName
  /\ UNCHANGED <<request, search, pc, err, listing, edges_read>>

\* add_node with a name that find_node does not find: a new node becomes
\* the head of the unit list, unvisited and with an empty adjacency list
AddNodeNew(new_name, new_long_name) ==
  /\ Loading
  /\ ~Defined(new_name)
  /\ unit_list' = <<NodeRecord(new_name, new_long_name)>> \o unit_list
  /\ adj_list' = [adj_list EXCEPT ![new_name] = <<>>]
  /\ visited' = [visited EXCEPT ![new_name] = FALSE]
  /\ nodes_read' = Append(nodes_read, NodeRecord(new_name, new_long_name))
  /\ warned' = NoName
  /\ UNCHANGED <<request, search, pc, err, listing, edges_read>>

\* a slip: the node that is already defined takes the new long name
AddNodeDuplicateRenames(new_name, new_long_name) ==
  /\ Loading
  /\ Defined(new_name)
  /\ unit_list' = [i \in 1..Len(unit_list) |->
                     IF unit_list[i].name = new_name
                       THEN NodeRecord(new_name, new_long_name)
                       ELSE unit_list[i]]
  /\ warned' = new_name
  /\ UNCHANGED <<adj_list, visited, request, search, pc, err, listing, records>>

\* add_node with a name that is already defined: a warning, nothing else
AddNodeDuplicate(new_name, new_long_name) ==
  /\ Loading
  /\ Defined(new_name)
  /\ warned' = new_name
  /\ UNCHANGED <<graph, request, search, pc, err, listing, records>>

\* ------------------------------------------------------------- add_edge
Edge(to, fac, inv) == [to_node |-> to, factor |-> fac, inverse |-> inv]

EdgeRecord(name1, fac12, name2, inversion) ==
  [name1 |-> name1, factor |-> fac12, name2 |-> name2, inversion |-> inversion]

\* a slip: the edge back gets the factor of the edge forth
ReverseFactorSame(fac12, inversion) == fac12

\* the factor stored in the edge back from n2 to n1
ReverseFactor(fac12, inversion) ==
  IF ~inversion THEN RDiv(RInt(1), fac12) ELSE fac12

\* a slip: the edges are linked in at the tails of the lists
LinkEdgesAtTail(adj, name1, fac12, name2, inversion) ==
  LET a1 == [adj EXCEPT ![name1] =
               Append(adj[name1], [to_node |-> name2, factor |-> fac12,
                                   inverse |-> inversion])]
  IN  [a1 EXCEPT ![name2] =
         Append(a1[name2],
                [to_node |-> name1,
                 factor |-> IF ~inversion THEN RDiv(RInt(1), fac12) ELSE fac12,
                 inverse |-> inversion])]

\* a slip: only the edge from n1 to n2 is linked in
LinkEdgesOneWay(adj, name1, fac12, name2, inversion) ==
  [adj EXCEPT ![name1] =
     <<[to_node |-> name2, factor |-> fac12, inverse |-> inversion]>> \o adj[name1]]

\* a slip: only the edge from n2 to n1 is linked in
LinkEdgesReverseOnly(adj, name1, fac12, name2, inversion) ==
  [adj EXCEPT ![name2] =
     <<[to_node |-> name1,
        factor |-> IF ~inversion THEN RDiv(RInt(1), fac12) ELSE fac12,
        inverse |-> inversion]>> \o adj[name2]]

\* the adjacency lists after the edge to n2 is linked in at the head of the
\* list of n1, and then the edge to n1 at the head of the list of n2
LinkEdges(adj, name1, fac12, name2, inversion) ==
  LET a1 == [adj EXCEPT ![name1] =
               <<Edge(name2, fac12, inversion)>> \o adj[name1]]
  IN  [a1 EXCEPT ![name2] =
         <<Edge(name1, ReverseFactor(fac12, inversion), inversion)>> \o a1[name2]]

\* add_edge with a zero factor: the program exits
AddEdgeZero(name1, fac12, name2, inversion) ==
  /\ Loading
  /\ RIsZero(fac12)
  /\ pc' = "exit"
  /\ err' = "ZeroFactor"
  /\ warned' = NoName
  /\ UNCHANGED <<graph, request, search, listing, records>>

\* a slip: the units are looked up before the factor is tested
AddEdgeUnknownFirst(name1, fac12, name2, inversion) ==
  /\ Loading
  /\ ~Defined(name1) \/ ~Defined(name2)
  /\ pc' = "exit"
  /\ err' = "UnknownUnit"
  /\ warned' = NoName
  /\ UNCHANGED <<graph, request, search, listing, records>>

\* add_edge with a unit that find_node does not find: the program exits
AddEdgeUnknown(name1, fac12, name2, inversion) ==
  /\ Loading
  /\ ~RIsZero(fac12)
  /\ ~Defined(name1) \/ ~Defined(name2)
  /\ pc' = "exit"
  /\ err' = "UnknownUnit"
  /\ warned' = NoName
  /\ UNCHANGED <<graph, request, search, listing, records>>

\* add_edge with a nonzero factor between two defined units
AddEdgeOk(name1, fac12, name2, inversion) ==
  /\ Loading
  /\ ~RIsZero(fac12)
  /\ Defined(name1)
  /\ Defined(name2)
  /\ adj_list' = LinkEdges(adj_list, name1, fac12, name2, inversion)
  /\ edges_read' = Append(edges_read, EdgeRecord(name1, fac12, name2, inversion))
  /\ warned' = NoName
  /\ UNCHANGED <<unit_list, visited, request, search, pc, err, listing,
                 nodes_read>>

\* add_edge(name1, fac12, name2, inversion)
AddEdge(name1, fac12, name2, inversion) ==
  \/ AddEdgeZero(name1, fac12, name2, inversion)
  \/ AddEdgeUnknown(name1, fac12, name2, inversion)
  \/ AddEdgeOk(name1, fac12, name2, inversion)

\* ----------------------------------------------------------------- main
\* the lines main writes when it walks the unit list from its head
RECURSIVE ListFrom(_)
ListFrom(t) ==
  IF t = <<>> THEN <<>>
  ELSE <<<<Head(t).name, Head(t).long_name>>>> \o ListFrom(Tail(t))

\* end of the definition file, no conversion on the command line: the
\* units are listed and the program exits
ListUnits ==
  /\ Loading
  /\ listing' = ListFrom(unit_list)
  /\ pc' = "listed"
  /\ warned' = NoName
  /\ UNCHANGED <<graph, request, search, err, records>>

\* end of the definition file with a conversion on the command line
EndOfFile ==
  /\ Loading
  /\ pc' = "ready"
  /\ warned' = NoName
  /\ UNCHANGED <<graph, request, search, err, listing, records>>

\* -------------------------------------------------------------- convert
\* the frame of connect(n1, n2, val) that has just been entered: the
\* destination check and the visited mark are done, t is at the list head
Frame(n1, val) == [n1 |-> n1, val |-> val, t |-> 1]

\* convert may be called: the graph is loaded and no call is running
Callable == pc \in {"ready", "returned"}

\* convert with a unit that find_node does not find: the program exits
ConvertUnknown(v, fu, tu) ==
  /\ Callable
  /\ ~Defined(fu) \/ ~Defined(tu)
  /\ value' = v
  /\ from_unit' = fu
  /\ to_unit' = tu
  /\ pc' = "exit"
  /\ err' = "UnknownUnit"
  /\ UNCHANGED <<graph, search, listing, warned, records>>

\* a slip: the target unit is not looked up
ConvertStartUnchecked(v, fu, tu) ==
  /\ Callable
  /\ Defined(fu)
  /\ value' = v
  /\ from_unit' = fu
  /\ to_unit' = tu
  /\ result' = IF fu = tu THEN v ELSE result
  /\ found' = (fu = tu)
  /\ visited' = [visited EXCEPT ![fu] = TRUE]
  /\ stack' = <<[n1 |-> fu, val |-> v, t |-> 1]>>
  /\ pc' = "connect"
  /\ UNCHANGED <<unit_list, adj_list, err, listing, warned, records>>

\* convert with both units found: found is cleared and connect is entered
\* at the source node
ConvertStart(v, fu, tu) ==
  /\ Callable
  /\ Defined(fu)
  /\ Defined(tu)
  /\ value' = v
  /\ from_unit' = fu
  /\ to_unit' = tu
  /\ result' = IF fu = tu THEN v ELSE result
  /\ found' = (fu = tu)
  /\ visited' = [visited EXCEPT ![fu] = TRUE]
  /\ stack' = <<Frame(fu, v)>>
  /\ pc' = "connect"
  /\ UNCHANGED <<unit_list, adj_list, err, listing, warned, records>>

\* -------------------------------------------------------------- connect
Top == stack[Len(stack)]
TopEdge == adj_list[Top.n1][Top.t]
\* the innermost call is at an edge t of its list
AtEdge == pc = "connect" /\ Top.t <= Len(adj_list[Top.n1])
\* the innermost call has reached the end of its list
AtEnd == pc = "connect" /\ Top.t > Len(adj_list[Top.n1])

\* the stack after the loop of the innermost call moves to t->next
Advance == [stack EXCEPT ![Len(stack)].t = @ + 1]

\* a slip: once the destination is found the remaining edges are passed over
ConnectSkipWhenFound ==
  /\ AtEdge
  /\ visited[TopEdge.to_node] \/ found
  /\ stack' = Advance
  /\ UNCHANGED <<graph, request, result, found, pc, err, listing, warned, records>>

\* the edge leads to a visited node: t = t->next
ConnectSkip ==
  /\ AtEdge
  /\ visited[TopEdge.to_node]
  /\ stack' = Advance
  /\ UNCHANGED <<graph, request, result, found, pc, err, listing, warned, records>>

\* a slip: an inverse edge met with val == 0 is passed over
ConnectZeroSkips ==
  /\ AtEdge
  /\ ~visited[TopEdge.to_node]
  /\ TopEdge.inverse
  /\ RIsZero(Top.val)
  /\ stack' = Advance
  /\ UNCHANGED <<graph, request, result, found, pc, err, listing, warned, records>>

\* a slip: an inverse edge makes the program exit whatever val is
ConnectZeroAlways ==
  /\ AtEdge
  /\ ~visited[TopEdge.to_node]
  /\ TopEdge.inverse
  /\ pc' = "exit"
  /\ err' = "DivisionByZero"
  /\ UNCHANGED <<graph, request, search, listing, warned, records>>

\* an inverse edge to an unvisited node with val == 0: the program exits
ConnectZero ==
  /\ AtEdge
  /\ ~visited[TopEdge.to_node]
  /\ TopEdge.inverse
  /\ RIsZero(Top.val)
  /\ pc' = "exit"
  /\ err' = "DivisionByZero"
  /\ UNCHANGED <<graph, request, search, listing, warned, records>>

\* a slip: an inverse edge divides the value by the factor
AlongSwapped(e, val) ==
  IF e.inverse THEN RDiv(val, e.factor) ELSE RMul(e.factor, val)

\* a slip: the global value is used in place of the parameter val
AlongFromInput(e, val) ==
  IF e.inverse THEN RDiv(e.factor, value) ELSE RMul(e.factor, value)

\* the value passed to connect along an edge e from a node reached with val
Along(e, val) ==
  IF e.inverse THEN RDiv(e.factor, val) ELSE RMul(e.factor, val)

\* a slip: the node entered is not marked
EnterUnmarked(m, val) ==
  /\ result' = IF m = to_unit THEN val ELSE result
  /\ found' = IF m = to_unit THEN TRUE ELSE found
  /\ visited' = visited
  /\ stack' = Append([stack EXCEPT ![Len(stack)].t = @ + 1],
                     [n1 |-> m, val |-> val, t |-> 1])

\* a slip: the value is recorded at every node entered
EnterAlwaysRecords(m, val) ==
  /\ result' = val
  /\ found' = IF m = to_unit THEN TRUE ELSE found
  /\ visited' = [visited EXCEPT ![m] = TRUE]
  /\ stack' = Append([stack EXCEPT ![Len(stack)].t = @ + 1],
                     [n1 |-> m, val |-> val, t |-> 1])

\* connect(m, n2, val) is called and entered: the destination check, the
\* visited mark, and a new innermost call; the caller resumes at t->next
Enter(m, val) ==
  /\ result' = IF m = to_unit THEN val ELSE result
  /\ found' = IF m = to_unit THEN TRUE ELSE found
  /\ visited' = [visited EXCEPT ![m] = TRUE]
  /\ stack' = Append(Advance, Frame(m, val))

\* an inverse edge to an unvisited node with val != 0
ConnectInverse ==
  /\ AtEdge
  /\ ~visited[TopEdge.to_node]
  /\ TopEdge.inverse
  /\ ~RIsZero(Top.val)
  /\ Enter(TopEdge.to_node, Along(TopEdge, Top.val))
  /\ UNCHANGED <<unit_list, adj_list, request, pc, err, listing, warned, records>>

\* a direct edge to an unvisited node
ConnectLinear ==
  /\ AtEdge
  /\ ~visited[TopEdge.to_node]
  /\ ~TopEdge.inverse
  /\ Enter(TopEdge.to_node, Along(TopEdge, Top.val))
  /\ UNCHANGED <<unit_list, adj_list, request, pc, err, listing, warned, records>>

\* the loop of an inner call is over: it returns to its caller
ConnectReturn ==
  /\ AtEnd
  /\ Len(stack) > 1
  /\ stack' = SubSeq(stack, 1, Len(stack) - 1)
  /\ UNCHANGED <<graph, request, result, found, pc, err, listing, warned, records>>

\* the outermost call returns to convert with found set: result is returned
ConvertReturn ==
  /\ AtEnd
  /\ Len(stack) = 1
  /\ found
  /\ stack' = <<>>
  /\ pc' = "returned"
  /\ UNCHANGED <<graph, request, result, found, err, listing, warned, records>>

\* a slip: convert returns result whether or not found is set
ConvertNotFoundReturns ==
  /\ AtEnd
  /\ Len(stack) = 1
  /\ ~found
  /\ stack' = <<>>
  /\ pc' = "returned"
  /\ UNCHANGED <<graph, request, result, found, err, listing, warned, records>>

\* the outermost call returns to convert with found clear: the program exits
ConvertNotFound ==
  /\ AtEnd
  /\ Len(stack) = 1
  /\ ~found
  /\ stack' = <<>>
  /\ pc' = "exit"
  /\ err' = "NoConversionPath"
  /\ UNCHANGED <<graph, request, result, found, listing, warned, records>>

\* one step of the search that convert has started
ConnectStep ==
  \/ ConnectSkip
  \/ ConnectZero
  \/ ConnectInverse
  \/ ConnectLinear
  \/ ConnectReturn
  \/ ConvertReturn
  \/ ConvertNotFound

\* ------------------------------------------------------- specifications
\* a run without a conversion on the command line: the definition file is
\* read and the units are listed
NextLoad ==
  \/ \E n \in Names, l \in LongNames : AddNodeNew(n, l)
  \/ \E n \in Names, l \in LongNames : AddNodeDuplicate(n, l)
  \/ \E a \in Names, b \in Names, f \in Factors, i \in BOOLEAN :
       AddEdgeZero(a, RInt(f), b, i)
  \/ \E a \in Names, b \in Names, f \in Factors, i \in BOOLEAN :
       AddEdgeUnknown(a, RInt(f), b, i)
  \/ \E a \in Names, b \in Names, f \in Factors, i \in BOOLEAN :
       Len(edges_read) < MaxEdgesSmall /\ AddEdgeOk(a, RInt(f), b, i)
  \/ ListUnits

SpecLoad == Init /\ [][NextLoad]_vars

\* a run with a conversion on the command line: the definition file is
\* read and main calls convert once
Next ==
  \/ \E n \in Names, l \in OneLongName : AddNodeNew(n, l)
  \/ \E n \in Names, l \in OneLongName : AddNodeDuplicate(n, l)
  \/ \E a \in Names, b \in Names, f \in Factors, i \in BOOLEAN :
       AddEdgeZero(a, RInt(f), b, i)
  \/ \E a \in Names, b \in Names, f \in Factors, i \in BOOLEAN :
       AddEdgeUnknown(a, RInt(f), b, i)
  \/ \E a \in Names, b \in Names, f \in Factors, i \in BOOLEAN :
       Len(edges_read) < MaxEdges /\ AddEdgeOk(a, RInt(f), b, i)
  \/ EndOfFile
  \/ \E v \in Values, a \in Names, b \in Names :
       pc = "ready" /\ ConvertUnknown(RInt(v), a, b)
  \/ \E v \in Values, a \in Names, b \in Names :
       pc = "ready" /\ ConvertStart(RInt(v), a, b)
  \/ ConnectSkip
  \/ ConnectZero
  \/ ConnectInverse
  \/ ConnectLinear
  \/ ConnectReturn
  \/ ConvertReturn
  \/ ConvertNotFound

Spec == Init /\ [][Next]_vars

\* convert used as a function that is called again after it has returned
NextReuse ==
  \/ \E n \in Names, l \in OneLongName : AddNodeNew(n, l)
  \/ \E a \in Names, b \in Names, f \in Factors, i \in BOOLEAN :
       Len(edges_read) < MaxEdgesSmall /\ AddEdgeOk(a, RInt(f), b, i)
  \/ EndOfFile
  \/ \E v \in Values, a \in Names, b \in Names : ConvertUnknown(RInt(v), a, b)
  \/ \E v \in Values, a \in Names, b \in Names : ConvertStart(RInt(v), a, b)
  \/ ConnectSkip
  \/ ConnectZero
  \/ ConnectInverse
  \/ ConnectLinear
  \/ ConnectReturn
  \/ ConvertReturn
  \/ ConvertNotFound

SpecReuse == Init /\ [][NextReuse]_vars

\* ------------------------------------------------- the claims' vocabulary
\* The relations are read off the accepted records of the definition file,
\* not off the adjacency lists, with the factors and flags that section 3
\* of the specification gives them.

\* a convert call has started and is over
Ended == pc = "returned" \/ (pc = "exit" /\ from_unit # NoName)
\* the call returned a value
Returned == pc = "returned"

EdgeIds == 1..Len(edges_read)
DefinedUnits == {nodes_read[k].name : k \in 1..Len(nodes_read)}

Relation(to, fac, inv) == [to_node |-> to, factor |-> fac, inverse |-> inv]

\* the forward and the reverse relation of the record r
Forward(r) == Relation(r.name2, r.factor, r.inversion)
Backward(r) ==
  Relation(r.name1,
           IF r.inversion THEN r.factor ELSE RDiv(RInt(1), r.factor),
           r.inversion)

\* the transform of a value v by a relation e
Transform(e, v) == IF e.inverse THEN RDiv(e.factor, v) ELSE RMul(v, e.factor)

\* the relations of unit n among the first k records, latest first; the
\* reverse relation of a record counts as added after its forward relation
RECURSIVE RelationsUpTo(_, _)
RelationsUpTo(n, k) ==
  IF k = 0 THEN <<>>
  ELSE LET r == edges_read[k]
       IN  (IF r.name2 = n THEN <<Backward(r)>> ELSE <<>>)
           \o (IF r.name1 = n THEN <<Forward(r)>> ELSE <<>>)
           \o RelationsUpTo(n, k - 1)

RelationsOf(n) == RelationsUpTo(n, Len(edges_read))

\* the units joined to a unit of S by a chain of the records K
RECURSIVE Component(_, _)
Component(S, K) ==
  LET T == S \cup {edges_read[k].name2 : k \in {j \in K : edges_read[j].name1 \in S}}
             \cup {edges_read[k].name1 : k \in {j \in K : edges_read[j].name2 \in S}}
  IN  IF T = S THEN S ELSE Component(T, K)

Connected(x, y) == y \in Component({x}, EdgeIds)

\* the record k joins two different units that no chain of other records joins
OnlyChain(k) ==
  /\ edges_read[k].name1 # edges_read[k].name2
  /\ edges_read[k].name2 \notin Component({edges_read[k].name1}, EdgeIds \ {k})

\* no inverted relation in the component of x
NoInverseAround(x) ==
  \A k \in EdgeIds :
    edges_read[k].name1 \in Component({x}, EdgeIds) => ~edges_read[k].inversion

\* the request is from the first to the second unit of record r, or back
Along12(r) == from_unit = r.name1 /\ to_unit = r.name2
Along21(r) == from_unit = r.name2 /\ to_unit = r.name1

\* ---------------------------------------------------------------- C1
\* C1 as stated: for every record add_relation(A, f, B, not inverted) of any
\* graph, convert(v, A, B) returns v * f and convert(v * f, B, A) returns v,
\* for every v.  (The second half reads: the value w given at B comes back
\* as the v with v * f = w.)
C1_Original ==
  Ended =>
    \A k \in EdgeIds :
      LET r == edges_read[k]
      IN  ~r.inversion =>
            /\ Along12(r) => Returned /\ result = RMul(value, r.factor)
            /\ Along21(r) => Returned /\ RMul(result, r.factor) = value

\* C1 amended: the same, for a record between two different units that no
\* other chain of relations joins, for every v # 0, and for v = 0 when the
\* component of A holds no inverted relation.
C1_DirectRelation ==
  Ended =>
    \A k \in EdgeIds :
      LET r == edges_read[k]
      IN  (/\ ~r.inversion
           /\ OnlyChain(k)
           /\ ~RIsZero(value) \/ NoInverseAround(from_unit)) =>
            /\ Along12(r) => Returned /\ result = RMul(value, r.factor)
            /\ Along21(r) => Returned /\ RMul(result, r.factor) = value

\* a conversion back along the only chain between two units, v # 0, in a
\* component that holds an inverted relation elsewhere
C1_Witness ==
  /\ Returned
  /\ ~RIsZero(value)
  /\ \E k \in EdgeIds :
       /\ ~edges_read[k].inversion
       /\ OnlyChain(k)
       /\ Along21(edges_read[k])
  /\ ~NoInverseAround(from_unit)

\* ---------------------------------------------------------------- C2
\* C2: every convert call begins with all nodes unmarked: when the
\* outermost connect has just been entered, only the source node is marked.
C2_FreshStart ==
  (pc = "connect" /\ Len(stack) = 1 /\ Top.t = 1) =>
    \A n \in Names \ {from_unit} : ~visited[n]

\* ---------------------------------------------------------------- C3
\* The depth first search of the claim: at every node the relations are
\* tried from the latest to the earliest, marked nodes are skipped, and the
\* search stops at the first arrival at the target.  The answer is
\* [hit, val, marked]; hit is "zero" when a zero value meets an inverted
\* relation.
RECURSIVE Search(_, _, _, _), Try(_, _, _, _, _)
Search(n, target, val, marked) ==
  IF n = target
    THEN [hit |-> "yes", val |-> val, marked |-> marked \cup {n}]
    ELSE Try(n, target, val, marked \cup {n}, 1)

Try(n, target, val, marked, k) ==
  IF k > Len(RelationsOf(n))
    THEN [hit |-> "no", val |-> val, marked |-> marked]
    ELSE LET e == RelationsOf(n)[k]
         IN  IF e.to_node \in marked
               THEN Try(n, target, val, marked, k + 1)
               ELSE IF e.inverse /\ RIsZero(val)
                 THEN [hit |-> "zero", val |-> val, marked |-> marked]
                 ELSE LET r == Search(e.to_node, target, Transform(e, val), marked)
                      IN  IF r.hit = "no"
                            THEN Try(n, target, val, r.marked, k + 1)
                            ELSE r

FirstFound == Search(from_unit, to_unit, value, {})

\* C3: the value that convert returns is the value accumulated along the
\* path that the depth first search, trying the latest relation of each
\* node first and skipping marked nodes, reaches first.
C3_FirstFoundPathWins ==
  Returned => FirstFound.hit = "yes" /\ FirstFound.val = result

\* a conversion between two units joined by two relations that give
\* different values: the later one decides
C3_Witness ==
  /\ Returned
  /\ from_unit # to_unit
  /\ \E j \in EdgeIds, k \in EdgeIds :
       /\ j < k
       /\ Along12(edges_read[j])
       /\ Along12(edges_read[k])
       /\ result = Transform(Forward(edges_read[k]), value)
       /\ result # Transform(Forward(edges_read[j]), value)

\* ---------------------------------------------------------------- C4
\* the accepted node records as (id, long_name) pairs, in registration order
Registered ==
  [k \in 1..Len(nodes_read) |-> <<nodes_read[k].name, nodes_read[k].long_name>>]

\* C4 as stated: the listing holds every defined unit once, as an
\* (id, long_name) pair, in registration order.
C4_Original == pc = "listed" => listing = Registered

\* C4 amended: the listing holds every defined unit once, as an
\* (id, long_name) pair, in the reverse of the registration order: the unit
\* registered last is listed first.
C4_ListingReversed ==
  pc = "listed" =>
    /\ Len(listing) = Len(Registered)
    /\ \A k \in 1..Len(listing) : listing[k] = Registered[Len(listing) - k + 1]

\* a listing of three units that do not all have the same long name
C4_Witness ==
  /\ pc = "listed"
  /\ Len(listing) = 3
  /\ listing[1][2] # listing[3][2]

\* ---------------------------------------------------------------- C5
\* the request names two defined units that no chain of relations joins
Disconnected ==
  /\ from_unit \in DefinedUnits
  /\ to_unit \in DefinedUnits
  /\ ~Connected(from_unit, to_unit)

\* C5 as stated: between two defined units that no chain of relations joins,
\* convert fails with NoConversionPath for every value.
C5_Original ==
  (Ended /\ Disconnected) => pc = "exit" /\ err = "NoConversionPath"

\* C5 amended: between two such units convert returns no value; it fails
\* with NoConversionPath for every v # 0, and for v = 0 when the component
\* of the source holds no inverted relation; for v = 0 otherwise it fails
\* with NoConversionPath or with DivisionByZero.
C5_Disconnected ==
  (Ended /\ Disconnected) =>
    /\ pc = "exit"
    /\ err \in {"NoConversionPath", "DivisionByZero"}
    /\ (~RIsZero(value) \/ NoInverseAround(from_unit)) => err = "NoConversionPath"

\* a failed conversion of a nonzero value from a unit that has an inverted
\* relation to a unit outside its component
C5_Witness ==
  /\ Ended
  /\ Disconnected
  /\ err = "NoConversionPath"
  /\ ~RIsZero(value)
  /\ ~NoInverseAround(from_unit)
  /\ Cardinality(Component({from_unit}, EdgeIds)) = 2

\* ---------------------------------------------------------------- C6
\* the search is at an inverted relation to an unmarked node with value 0
ZeroMeetsInverse ==
  /\ AtEdge
  /\ ~visited[TopEdge.to_node]
  /\ TopEdge.inverse
  /\ RIsZero(Top.val)

\* C6: when the search, at a node with accumulated value 0, meets an
\* inverted relation to an unmarked node, the conversion ends in
\* DivisionByZero: the next step exits without marking a node or recording
\* a result, and nothing happens after the exit.
C6_DivisionByZeroAborts ==
  [][/\ ZeroMeetsInverse =>
          /\ pc' = "exit"
          /\ err' = "DivisionByZero"
          /\ UNCHANGED <<graph, request, search>>
     /\ pc = "exit" => UNCHANGED vars]_vars

\* the conversion ended in DivisionByZero, the target not found, though a
\* direct relation that is not inverted joins the source and the target
C6_Witness ==
  /\ pc = "exit"
  /\ err = "DivisionByZero"
  /\ ~found
  /\ \E k \in EdgeIds : ~edges_read[k].inversion /\ Along12(edges_read[k])

\* ---------------------------------------------------------------- C7
\* C7 as stated: for every record add_relation(A, f, B, inverted) and
\* v # 0, convert(v, A, B) returns f / v, and convert(f / v, B, A) returns v.
\* (The second half reads: the value w given at B comes back as the v with
\* f / v = w.)
C7_Original ==
  (Ended /\ ~RIsZero(value)) =>
    \A k \in EdgeIds :
      LET r == edges_read[k]
      IN  r.inversion =>
            /\ Along12(r) => Returned /\ result = RDiv(r.factor, value)
            /\ Along21(r) =>
                 Returned /\ ~RIsZero(result) /\ RDiv(r.factor, result) = value

\* C7 amended: the same, for a record between two different units that no
\* other chain of relations joins.
C7_InvertedRelation ==
  (Ended /\ ~RIsZero(value)) =>
    \A k \in EdgeIds :
      LET r == edges_read[k]
      IN  (r.inversion /\ OnlyChain(k)) =>
            /\ Along12(r) => Returned /\ result = RDiv(r.factor, value)
            /\ Along21(r) =>
                 Returned /\ ~RIsZero(result) /\ RDiv(r.factor, result) = value

\* a conversion back along an inverted record, the only chain between its
\* units, in a graph with a second record
C7_Witness ==
  /\ Returned
  /\ ~RIsZero(value)
  /\ Len(edges_read) = 2
  /\ \E k \in EdgeIds :
       /\ edges_read[k].inversion
       /\ OnlyChain(k)
       /\ Along21(edges_read[k])

\* ---------------------------------------------------------------- C8
\* the values that the chains of relations from n to target, through units
\* not in seen, give to val
RECURSIVE ChainValues(_, _, _, _)
ChainValues(n, target, val, seen) ==
  IF n = target THEN {val}
  ELSE UNION { ChainValues(RelationsOf(n)[k].to_node, target,
                           Transform(RelationsOf(n)[k], val),
                           seen \cup {RelationsOf(n)[k].to_node}) :
               k \in {j \in 1..Len(RelationsOf(n)) :
                        RelationsOf(n)[j].to_node \notin seen} }

\* only A -> B (factor 2, not inverted) and B -> C (factor 3, not inverted)
\* are defined
TwoStepExample ==
  /\ Len(edges_read) = 2
  /\ {edges_read[k] : k \in EdgeIds} =
       { [name1 |-> "A", factor |-> RInt(2), name2 |-> "B", inversion |-> FALSE],
         [name1 |-> "B", factor |-> RInt(3), name2 |-> "C", inversion |-> FALSE] }

\* C8: between two defined units of one component, for v # 0, convert
\* returns the composition of the transforms along one chain of relations
\* from the source to the target; with only A -> B (2) and B -> C (3)
\* defined, convert(v, A, C) returns v * 6 for every v.
C8_Transitive ==
  /\ (/\ Ended
      /\ from_unit \in DefinedUnits
      /\ to_unit \in DefinedUnits
      /\ ~RIsZero(value)
      /\ Connected(from_unit, to_unit)) =>
       /\ Returned
       /\ result \in ChainValues(from_unit, to_unit, value, {from_unit})
  /\ (Ended /\ TwoStepExample /\ from_unit = "A" /\ to_unit = "C") =>
       /\ Returned
       /\ result = RMul(value, RInt(6))

\* convert(3, A, C) has returned 18 in the example graph
C8_Witness ==
  /\ Returned
  /\ TwoStepExample
  /\ from_unit = "A"
  /\ to_unit = "C"
  /\ value = RInt(3)
  /\ result = RInt(18)

\* ---------------------------------------------------------------- C9
\* a step accepts an edge record: add_relation succeeds
Accepts == Len(edges_read') = Len(edges_read) + 1
\* the record that the step accepts
Accepted == edges_read'[Len(edges_read')]

\* the part of the insertion that the claim and its amendment share: the
\* lists of the other nodes and everything but the adjacency lists are as
\* they were
OtherwiseUnchanged(r) ==
  /\ \A n \in Names \ {r.name1, r.name2} : adj_list'[n] = adj_list[n]
  /\ UNCHANGED <<unit_list, visited, request, search, pc, err, listing>>

\* the lists of A and B # A after the insertion
InsertedApart(r) ==
  /\ adj_list'[r.name1] = <<Forward(r)>> \o adj_list[r.name1]
  /\ adj_list'[r.name2] = <<Backward(r)>> \o adj_list[r.name2]

\* C9 as stated: a successful add_relation(A, f, B, inv) makes (B, f, inv)
\* the first relation of A and (A, f', inv') the first relation of B, keeps
\* the earlier relations behind the new ones, inserts two relations in all
\* and changes nothing else.
C9_Original ==
  [][Accepts =>
       /\ Head(adj_list'[Accepted.name1]) = Forward(Accepted)
       /\ Head(adj_list'[Accepted.name2]) = Backward(Accepted)
       /\ Accepted.name1 # Accepted.name2 => InsertedApart(Accepted)
       /\ Accepted.name1 = Accepted.name2 =>
            /\ Len(adj_list'[Accepted.name1]) = Len(adj_list[Accepted.name1]) + 2
            /\ SubSeq(adj_list'[Accepted.name1], 3, Len(adj_list'[Accepted.name1]))
                 = adj_list[Accepted.name1]
       /\ OtherwiseUnchanged(Accepted)]_vars

\* C9 amended: the same when A # B; when A = B the two relations become the
\* first two of A's list, the reverse relation (A, f', inv') first and
\* (A, f, inv) second, with the earlier relations behind them.
C9_TwoRelationsInserted ==
  [][Accepts =>
       /\ Accepted.name1 # Accepted.name2 => InsertedApart(Accepted)
       /\ Accepted.name1 = Accepted.name2 =>
            adj_list'[Accepted.name1] =
              <<Backward(Accepted), Forward(Accepted)>> \o adj_list[Accepted.name1]
       /\ OtherwiseUnchanged(Accepted)]_vars

\* two records accepted: a self relation that is not inverted, then a
\* relation from another unit to that one
C9_Witness ==
  /\ Len(edges_read) = 2
  /\ edges_read[1].name1 = edges_read[1].name2
  /\ ~edges_read[1].inversion
  /\ edges_read[2].name1 # edges_read[2].name2
  /\ edges_read[2].name2 = edges_read[1].name1
  /\ Len(adj_list[edges_read[1].name1]) = 3

\* --------------------------------------------------------------- C10
\* the record is rejected with the error kind, and no relation is inserted
Rejected(kind) ==
  /\ pc' = "exit"
  /\ err' = kind
  /\ adj_list' = adj_list
  /\ edges_read' = edges_read

\* add_relation(a, f, b, i) does something, and whatever it does rejects
\* the record with the error kind
AlwaysRejected(a, f, b, i, kind) ==
  /\ ENABLED AddEdge(a, f, b, i)
  /\ ~ENABLED (AddEdge(a, f, b, i) /\ ~Rejected(kind))

\* C10: while the definition file is read (no convert call has started),
\* add_relation(A, f, B, inv) fails with ZeroFactor whenever f = 0, whether
\* or not A and B are defined, and with UnknownUnit whenever f # 0 and A or
\* B is not defined by an earlier record; no relation is inserted.
C10_RelationRejected ==
  pc = "load" =>
    /\ from_unit = NoName
    /\ \A a \in Names, b \in Names, f \in Factors, i \in BOOLEAN :
         /\ f = 0 => AlwaysRejected(a, RInt(f), b, i, "ZeroFactor")
         /\ (f # 0 /\ (a \notin DefinedUnits \/ b \notin DefinedUnits)) =>
              AlwaysRejected(a, RInt(f), b, i, "UnknownUnit")

\* a record was rejected after another had been accepted and while a unit
\* was still undefined
C10_Witness ==
  /\ pc = "exit"
  /\ from_unit = NoName
  /\ err \in {"ZeroFactor", "UnknownUnit"}
  /\ Len(edges_read) = 1
  /\ Len(nodes_read) < 3

\* --------------------------------------------------------------- C11
\* the nodes of the unit list other than the one named n, in list order
RECURSIVE Without(_, _)
Without(list, n) ==
  IF list = <<>> THEN <<>>
  ELSE (IF Head(list).name = n THEN <<>> ELSE <<Head(list)>>)
       \o Without(Tail(list), n)

\* C11: add_node with an id that is already defined (the step that writes
\* the warning) is not fatal and leaves the graph as it was: the node
\* sequence with its long names, the relations and the marks are unchanged
\* and the file is still being read; add_node with a new id adds one node
\* with an empty relation list and changes no node that existed.
C11_AddNodeFrame ==
  [][/\ warned' # NoName =>
          /\ warned' \in DefinedUnits
          /\ UNCHANGED <<unit_list, adj_list, visited, nodes_read, edges_read>>
          /\ pc' = "load"
          /\ err' = "none"
     /\ nodes_read' # nodes_read =>
          LET new == nodes_read'[Len(nodes_read')]
          IN  /\ new.name \notin DefinedUnits
              /\ Len(unit_list') = Len(unit_list) + 1
              /\ \E i \in 1..Len(unit_list') : unit_list'[i] = new
              /\ Without(unit_list', new.name) = unit_list
              /\ adj_list'[new.name] = <<>>
              /\ \A n \in Names \ {new.name} :
                   adj_list'[n] = adj_list[n] /\ visited'[n] = visited[n]]_vars

\* the warning names a unit that has a relation, while three units are
\* defined that do not all have the same long name
C11_Witness ==
  /\ warned # NoName
  /\ adj_list[warned] # <<>>
  /\ Len(unit_list) = 3
  /\ \E i \in 1..3 : unit_list[i].long_name # unit_list[1].long_name

\* --------------------------------------------------------------- C12
\* C12: after any sequence of records, the node identifiers of the unit
\* list are pairwise distinct, and every relation stored in an adjacency
\* list has a factor that is not zero.
C12_GraphInvariant ==
  /\ \A i \in 1..Len(unit_list), j \in 1..Len(unit_list) :
       unit_list[i].name = unit_list[j].name => i = j
  /\ \A n \in Names : \A k \in 1..Len(adj_list[n]) :
       /\ Num(adj_list[n][k].factor) # 0
       /\ Den(adj_list[n][k].factor) # 0

\* a record was rejected after three units and two relations, one of them
\* not inverted, were stored
C12_Witness ==
  /\ pc = "exit"
  /\ from_unit = NoName
  /\ Len(unit_list) = 3
  /\ Len(edges_read) = 2
  /\ \E k \in EdgeIds : ~edges_read[k].inversion

\* --------------------------------------------------------------- C13
\* a convert call was made with a unit that is not defined
UnknownRequest ==
  /\ from_unit # NoName
  /\ from_unit \notin DefinedUnits \/ to_unit \notin DefinedUnits

\* C13: convert(v, from_id, to_id) fails with UnknownUnit whenever from_id
\* or to_id is not defined, for every v, before the search starts: no node
\* is marked, no connect call is active and no result is recorded.
C13_UnknownUnit ==
  UnknownRequest =>
    /\ pc = "exit"
    /\ err = "UnknownUnit"
    /\ \A n \in Names : ~visited[n]
    /\ stack = <<>>
    /\ ~found
    /\ result = RZero

\* convert failed for an undefined target though the source is defined and
\* has a relation
C13_Witness ==
  /\ UnknownRequest
  /\ err = "UnknownUnit"
  /\ from_unit \in DefinedUnits
  /\ ~RIsZero(value)
  /\ adj_list[from_unit] # <<>>

\* --------------------------------------------------------------- C14
RECURSIVE SumOver(_, _)
\* the sum of w[n] over the units n of S
SumOver(S, w) ==
  IF S = {} THEN 0
  ELSE LET n == CHOOSE x \in S : TRUE IN w[n] + SumOver(S \ {n}, w)

RECURSIVE LeftFrom(_)
\* the loop steps left to the active connect calls: for each call the edges
\* from t to the end of its list, and its return
LeftFrom(k) ==
  IF k = 0 THEN 0
  ELSE (Len(adj_list[stack[k].n1]) - stack[k].t + 2) + LeftFrom(k - 1)

\* the steps the search can still take: those left to the active calls and,
\* for every unmarked node, its entry with the whole of its list
StepsLeft ==
  LeftFrom(Len(stack))
  + SumOver({n \in Names : ~visited[n]},
            [n \in Names |-> Len(adj_list[n]) + 1])

\* the search is at an edge or at the end of the list of its innermost call
InsideList ==
  /\ stack # <<>>
  /\ Top.t \in 1..(Len(adj_list[Top.n1]) + 1)

\* C14: every convert call terminates on every finite graph: while the
\* search runs it can always take a step, each step leaves fewer steps to
\* take and the number left is never negative; the search enters a node
\* only if the node is unmarked, marks it on entry, and no mark is removed,
\* so that no node is entered twice in one call.
C14_SearchTerminates ==
  [][/\ pc' = "connect" =>
          /\ InsideList'
          /\ (ENABLED ConnectStep)'
          /\ StepsLeft' >= 0
     /\ (pc = "connect" /\ pc' = "connect") => StepsLeft' < StepsLeft
     /\ Len(stack') = Len(stack) + 1 =>
          LET m == stack'[Len(stack')].n1
          IN  ~visited[m] /\ visited'[m]
     /\ \A n \in Names : visited[n] => visited'[n]]_vars

\* a call returned from a graph with a self relation and two relations
\* between the same pair of different units
C14_Witness ==
  /\ Returned
  /\ from_unit # to_unit
  /\ Len(edges_read) = 2
  /\ \/ /\ edges_read[1].name1 = edges_read[1].name2
        /\ edges_read[2].name1 # edges_read[2].name2
     \/ /\ edges_read[1].name1 # edges_read[1].name2
        /\ {edges_read[1].name1, edges_read[1].name2}
             = {edges_read[2].name1, edges_read[2].name2}

\* --------------------------------------------------------------- C15
\* C15: once the target has been reached and its value recorded, the search
\* that continues never changes the recorded result or the found flag, and
\* the step that returns hands back the value recorded at that arrival.
C15_RecordedOnce ==
  [][(pc = "connect" /\ found) => (result' = result /\ found' = found)]_vars

\* the search went on to enter a third node, after the target, and returned
C15_Witness ==
  /\ Returned
  /\ from_unit # to_unit
  /\ \A n \in Names : visited[n]
  /\ Len(edges_read) = 2
  /\ \A k \in EdgeIds : to_unit \in {edges_read[k].name1, edges_read[k].name2}
  /\ \A k \in EdgeIds : edges_read[k].name1 # edges_read[k].name2
  /\ edges_read[2].name1 # edges_read[1].name1
     \/ edges_read[2].name2 # edges_read[1].name2

\* --------------------------------------------------------------- C16
\* C16: if convert is called with v # 0, the value is nonzero at every
\* node the search has entered and the call does not end in DivisionByZero;
\* a call ends in DivisionByZero only when the input value is 0.
C16_NonzeroStaysNonzero ==
  /\ (from_unit # NoName /\ ~RIsZero(value)) =>
       /\ \A k \in 1..Len(stack) : ~RIsZero(stack[k].val)
       /\ found => ~RIsZero(result)
       /\ err # "DivisionByZero"
  /\ err = "DivisionByZero" => RIsZero(value)

\* the search holds a value v # 0 that went through a direct and then an
\* inverted relation
C16_Witness ==
  /\ pc = "connect"
  /\ ~RIsZero(value)
  /\ Len(stack) = 3
  /\ Len(edges_read) = 2
  /\ \E k \in EdgeIds : edges_read[k].inversion
  /\ \E k \in EdgeIds : ~edges_read[k].inversion

\* --------------------------------------------------------------- C17
\* C17: the search does not stop when the target is found: after a convert
\* call that started with no node marked and ended in success or in
\* NoConversionPath, the marked nodes are exactly the units of the
\* connected component of the from unit.
C17_MarkedIsComponent ==
  (Returned \/ (pc = "exit" /\ err = "NoConversionPath")) =>
    {n \in Names : visited[n]} = Component({from_unit}, EdgeIds)

\* the call returned; the target was the first node entered from the from
\* unit and a third node, joined to the target only, is marked as well
C17_Witness ==
  /\ Returned
  /\ from_unit # to_unit
  /\ \A n \in Names : visited[n]
  /\ Len(edges_read) = 2
  /\ Len(RelationsOf(from_unit)) = 1
  /\ Head(RelationsOf(from_unit)).to_node = to_unit

\* --------------------------------------------------------------- C18
\* the units that a chain of stored edges leads to from a unit of S
RECURSIVE StoredReach(_)
StoredReach(S) ==
  LET T == S \cup UNION {{adj_list[n][k].to_node : k \in 1..Len(adj_list[n])}
                           : n \in S}
  IN  IF T = S THEN S ELSE StoredReach(T)

\* the number of stored edges from n to m with the flag inv
StoredCount(n, m, inv) ==
  Cardinality({k \in 1..Len(adj_list[n]) :
                 adj_list[n][k].to_node = m /\ adj_list[n][k].inverse = inv})

\* C18: the stored relations come in symmetric pairs: for all units X, Y and
\* each flag there are as many relations X->Y as Y->X with that flag (an
\* even number when X = Y); and reachability is symmetric: for defined X, Y
\* and v # 0 a call convert(v, X, Y) finds a path exactly when a chain of
\* stored relations leads from X to Y, which is exactly when one leads from
\* Y to X, so exactly when convert(v, Y, X) finds one.
C18_SymmetricPairs ==
  /\ \A n \in Names, m \in Names, inv \in BOOLEAN :
       /\ StoredCount(n, m, inv) = StoredCount(m, n, inv)
       /\ StoredCount(n, n, inv) % 2 = 0
  /\ \A x \in DefinedUnits, y \in DefinedUnits :
       y \in StoredReach({x}) <=> x \in StoredReach({y})
  /\ (/\ Ended
      /\ ~RIsZero(value)
      /\ from_unit \in DefinedUnits
      /\ to_unit \in DefinedUnits) =>
       (Returned <=> to_unit \in StoredReach({from_unit}))

\* a call with v # 0 found its way back along two records, one of them
\* inverted, from the second unit of the later to the first of the earlier
C18_Witness ==
  /\ Returned
  /\ ~RIsZero(value)
  /\ Len(edges_read) = 2
  /\ from_unit = edges_read[2].name2
  /\ to_unit = edges_read[1].name1
  /\ edges_read[1].name2 = edges_read[2].name1
  /\ Cardinality({from_unit, to_unit, edges_read[2].name1}) = 3
  /\ edges_read[1].inversion # edges_read[2].inversion

====
